---- MODULE Spec2Model ----
(***************************************************************************)
(* The booking transaction core of the client service                      *)
(* (backend/client-service/models/clientModel.js) on its single shared     *)
(* sqlite3 connection `db`.                                                *)
(*                                                                         *)
(* State: the database file (committed), the connection's view of it       *)
(* (cur, which includes the uncommitted writes of an open transaction),    *)
(* the connection's transaction flag, the statement scheduler of the       *)
(* sqlite3 binding (queue / pending statements / locked), and one record   *)
(* per confirmBooking call and per read request holding the position of    *)
(* its callback chain.                                                     *)
(***************************************************************************)
EXTENDS Integers, Sequences, FiniteSets, TLC

\* ---------------------------------------------------------------- bounds
MaxCalls   == 2     \* confirmBooking / purchaseTicket calls
MaxReaders == 1     \* concurrent getEventById / getAllEvents requests
MaxTickets == 2     \* initial tickets of an event: 0..MaxTickets
MaxQty     == 2     \* requested quantities: ..MaxQty
MaxFaults  == 1     \* storage failures the environment injects in one run

Calls   == 1..MaxCalls
Readers == (MaxCalls + 1)..(MaxCalls + MaxReaders)

\* ------------------------------------------------------------- JS values
\* A JavaScript value is [t, n]:
\*   number n | fraction n+1/2 | nan | string (decimal numeral of n) |
\*   text (non-numeric string) | boolean (n = 1 true, 0 false) | null |
\*   undefined
JS(t, n) == [t |-> t, n |-> n]
Num(n)   == JS("number", n)
NaN      == JS("nan", 0)
Undefined == JS("undefined", 0)

\* Number(value), clientModel.js lines 73, 125, 126
ToNumber(v) ==
  CASE v.t = "number"    -> v
    [] v.t = "fraction"  -> v
    [] v.t = "nan"       -> NaN
    [] v.t = "string"    -> Num(v.n)
    [] v.t = "text"      -> NaN
    [] v.t = "boolean"   -> Num(v.n)
    [] v.t = "null"      -> Num(0)
    [] v.t = "undefined" -> NaN

\* Number.isInteger(x) for a JS number x
NumberIsInteger(x) == x.t = "number"

\* !Number.isInteger(parsed) || parsed <= 0   (lines 75, 129, 132)
InvalidPositiveInt(parsed) == ~NumberIsInteger(parsed) \/ parsed.n <= 0

\* Strings that are not numerals: JS("text", n) is the n-th of these texts;
\* JS("empty", 0) is the empty string.
TextOf(n) ==
  CASE n = 1 -> "Test User"
    [] n = 2 -> "Direct Purchase"
    [] n = 3 -> "Guest"
    [] OTHER -> "invalid"
EmptyString == JS("empty", 0)
Guest == JS("text", 3)

\* the truth value of a JS value in `value || ...`
Truthy(v) ==
  CASE v.t = "number"    -> v.n # 0
    [] v.t = "fraction"  -> TRUE
    [] v.t = "nan"       -> FALSE
    [] v.t = "string"    -> TRUE
    [] v.t = "text"      -> TRUE
    [] v.t = "empty"     -> FALSE
    [] v.t = "boolean"   -> v.n = 1
    [] v.t = "null"      -> FALSE
    [] v.t = "undefined" -> FALSE

\* the default parameter customerName = 'Guest'   (line 124)
DefaultGuest(name) == IF name.t = "undefined" THEN Guest ELSE name

\* customerName || 'Guest'   (line 175)
OrGuest(name) == IF Truthy(name) THEN name ELSE Guest

\* the text the customer_name TEXT column holds for a bound JS value: a
\* string is stored as it is, a number as its numeral, a boolean as the
\* numeral of the integer 1 or 0 it is bound as      (lines 25, 174-175)
BindText(v) ==
  CASE v.t = "text"     -> TextOf(v.n)
    [] v.t = "string"   -> ToString(v.n)
    [] v.t = "number"   -> ToString(v.n)
    [] v.t = "boolean"  -> ToString(v.n)
    [] v.t = "fraction" -> ToString(v.n) \o ".5"
    [] OTHER            -> ""

\* ------------------------------------------------------------ the tables
\* events rows as seeded by shared-db/init.sql; id 3 has no row here.
EventIds  == {1, 2}
NoEventId == 3
EventName(e) == IF e = 1 THEN "Homecoming Football Game" ELSE "Spring Concert"
EventDate(e) == IF e = 1 THEN "2025-10-15" ELSE "2025-04-12"

EventRow(e, t) == [id |-> e, name |-> EventName(e), date |-> EventDate(e), tickets |-> t]

\* the value of a missing row / unset variable
Null == [id |-> 0, name |-> "", date |-> "", tickets |-> 0]

\* ------------------------------------------------------------ errors
\* A rejection value: status 0 stands for "no status property" (an error
\* raised by the sqlite3 binding, which carries a code instead).
Err(status, code, message, tickets, name) ==
  [status |-> status, code |-> code, message |-> message,
   tickets |-> tickets, name |-> name]
NoErr == Err(0, "", "", 0, "")

ErrInvalidId  == Err(400, "", "Invalid event id", 0, "")
ErrInvalidQty == Err(400, "", "Ticket quantity must be a positive integer", 0, "")
ErrNotFound   == Err(404, "", "Event not found", 0, "")
\* (mutant) the message interpolates the wrong field
ErrOnly_WrongField(row) ==
  Err(400, "", "Only tickets remaining for", row.id, row.name)

\* `Only ${eventRow.tickets} tickets remaining for ${eventRow.name}`
ErrOnly(row)  == Err(400, "", "Only tickets remaining for", row.tickets, row.name)
\* errors of the store
SqliteError(code, message) == Err(0, code, message, 0, "")
ErrNested     == SqliteError("SQLITE_ERROR", "cannot start a transaction within a transaction")
ErrNoTxnCommit   == SqliteError("SQLITE_ERROR", "cannot commit - no transaction is active")
ErrNoTxnRollback == SqliteError("SQLITE_ERROR", "cannot rollback - no transaction is active")
ErrBusy       == SqliteError("SQLITE_BUSY", "database is locked")
ErrIO         == SqliteError("SQLITE_IOERR", "disk I/O error")

VARIABLES
  committed,   \* the database file: [events, bookings]
  cur,         \* what statements on the connection read and write
  inTxn,       \* the connection has an open transaction
  queue,       \* the binding's queue of scheduled statements
  inflight,    \* requests whose statement is executing (pending)
  locked,      \* the binding's `locked` flag
  calls,       \* the confirmBooking calls
  reads,       \* the read requests
  faults,      \* storage failures injected so far
  original     \* the tickets every event started with (never changes)

vars == <<committed, cur, inTxn, queue, inflight, locked, calls, reads, faults,
          original>>

\* ------------------------------------------------------ the two tables
\* SELECT id, name, date, tickets FROM events WHERE id = ?   (line 153)
\* SELECT * FROM events WHERE id = ?                          (line 79)
SelectEvent(view, id) ==
  IF id \in DOMAIN view.events THEN view.events[id] ELSE Null

\* (mutant) the statement of the legacy purchase: tickets = tickets - 1
UpdateTickets_ByOne(view, id, qty) ==
  IF id \in DOMAIN view.events
  THEN [view EXCEPT !.events[id].tickets = @ - 1]
  ELSE view

\* UPDATE events SET tickets = tickets - ? WHERE id = ?        (line 168)
\* (mutant) the UPDATE has no WHERE clause and lowers every event
UpdateTickets_AllRows(view, id, qty) ==
  [view EXCEPT !.events = [e \in DOMAIN @ |-> [@[e] EXCEPT !.tickets = @ - qty]]]

UpdateTickets(view, id, qty) ==
  IF id \in DOMAIN view.events
  THEN [view EXCEPT !.events[id].tickets = @ - qty]
  ELSE view

\* this.lastID of the INSERT: bookings.id is AUTOINCREMENT      (lines 22, 179)
LastID(view) == Len(view.bookings) + 1

\* (mutant) the INSERT replaces the rows the table had
InsertBooking_Overwrites(view, id, qty, name) ==
  [view EXCEPT !.bookings =
     <<[id |-> Len(view.bookings) + 1, event_id |-> id, quantity |-> qty,
        customer_name |-> name]>>]

\* INSERT INTO bookings (event_id, quantity, customer_name) VALUES (?, ?, ?)
\*                                                             (line 174)
InsertBooking(view, id, qty, name) ==
  [view EXCEPT !.bookings =
     Append(@, [id |-> LastID(view), event_id |-> id, quantity |-> qty,
                customer_name |-> name])]

\* SELECT * FROM events                                        (line 41)
SelectAll(view) == [e \in DOMAIN view.events |-> view.events[e]]

\* ------------------------------------------- the binding's scheduler
\* The sqlite3 binding behind `db` (line 13) runs a statement at once
\* unless it has to wait: a statement issued inside db.serialize (line 148)
\* waits while any statement is pending and then runs alone; a statement
\* issued while the binding is locked by such a statement waits in the same
\* first-in first-out queue.
Sched(q, infl, lk) == [queue |-> q, inflight |-> infl, locked |-> lk]

\* db.run / db.get / db.all: schedule the statement of request `req`;
\* `pending` is the number of statements pending at that moment.
ScheduleStmt(S, req, serialize, pending) ==
  IF (S.locked \/ serialize) /\ pending > 0
  THEN [S EXCEPT !.queue = Append(@, [req |-> req, exclusive |-> serialize])]
  ELSE [S EXCEPT !.locked = FALSE, !.inflight = @ \cup {req}]

\* the binding starts queued statements when a statement ends
RECURSIVE Process(_)
Process(S) ==
  IF S.queue # <<>> /\ (~S.locked \/ S.inflight = {})
  THEN LET c == Head(S.queue) IN
       IF c.exclusive /\ S.inflight # {}
       THEN S
       ELSE Process(Sched(Tail(S.queue), S.inflight \cup {c.req}, c.exclusive))
  ELSE S

\* The callback of request `req` issues its next statement, then the
\* statement that just ran ends and the queue is processed.
IssueNext(req) ==
  LET S1 == ScheduleStmt(Sched(queue, inflight \ {req}, locked), req, FALSE,
                         Cardinality(inflight))
      S2 == Process(S1)
  IN /\ queue' = S2.queue
     /\ inflight' = S2.inflight
     /\ locked' = S2.locked

\* The callback of request `req` issues no statement: the statement ends.
EndStmt(req) ==
  LET S2 == Process(Sched(queue, inflight \ {req}, locked))
  IN /\ queue' = S2.queue
     /\ inflight' = S2.inflight
     /\ locked' = S2.locked

\* ----------------------------------------------------- the connection
\* (mutant) the writes are not inside a transaction
Write_NoTransaction(view) ==
  /\ cur' = view
  /\ committed' = view
  /\ inTxn' = inTxn

\* A statement that writes: inside a transaction the write stays in the
\* connection's view until COMMIT; in autocommit mode it is durable at once.
Write(view) ==
  /\ cur' = view
  /\ committed' = IF inTxn THEN committed ELSE view
  /\ inTxn' = inTxn

\* A statement that fails. SQLite may end the open transaction on its own
\* (SQLITE_FULL, SQLITE_IOERR, ...: autoRollback) or leave it open.
Fail(autoRollback) ==
  /\ faults < MaxFaults
  /\ faults' = faults + 1
  /\ committed' = committed
  /\ IF autoRollback /\ inTxn
     THEN cur' = committed /\ inTxn' = FALSE
     ELSE cur' = cur /\ inTxn' = inTxn

StoreUnchanged == UNCHANGED <<committed, cur, inTxn>>

\* ------------------------------------------------------------- calls
Pending == [state |-> "pending", value |-> Null, error |-> NoErr]
Fulfilled(v) == [state |-> "fulfilled", value |-> v, error |-> NoErr]
Rejected(e) == [state |-> "rejected", value |-> Null, error |-> e]

NoSnapshot == [events |-> <<>>, bookings |-> <<>>]

IdleCall ==
  [op |-> "", pc |-> "idle", eventId |-> Undefined, quantity |-> Undefined,
   customerName |-> Undefined, selectedEvent |-> Null, bookingId |-> 0,
   error |-> NoErr, outcome |-> Pending, issued |-> <<>>,
   \* history kept for the properties: whether its BEGIN succeeded, and
   \* the database file as it was at that moment
   opened |-> FALSE, before |-> NoSnapshot]

IdleRead == [op |-> "", pc |-> "idle", eventId |-> Undefined, outcome |-> Pending,
             rows |-> <<>>]

parsedId(c)  == ToNumber(calls[c].eventId).n
parsedQty(c) == ToNumber(calls[c].quantity).n

\* reject(error)
Reject(call, error) ==
  [call EXCEPT !.pc = "done", !.outcome = Rejected(error), !.before = NoSnapshot]

\* the statement `stmt` is handed to db.run / db.get
Issue(call, stmt) == [call EXCEPT !.pc = stmt, !.issued = Append(@, stmt)]

\* rollback(error): db.run('ROLLBACK', ...)                 (lines 139-146)
rollback(call, error) == [Issue(call, "ROLLBACK") EXCEPT !.error = error]

\* the value confirmBooking resolves with                   (lines 188-197)
Confirmation(call, qty) ==
  [bookingId |-> call.bookingId,
   event |-> [id |-> call.selectedEvent.id, name |-> call.selectedEvent.name,
              date |-> call.selectedEvent.date],
   requestedTickets |-> qty,
   remainingTickets |-> call.selectedEvent.tickets]

\* purchaseTicket's .then                                    (lines 58-63)
PurchaseResult(result) ==
  [message |-> "Ticket purchased successfully",
   remaining |-> result.remainingTickets,
   bookingId |-> result.bookingId,
   event |-> result.event]

\* resolve(...)
Resolve(call, qty) ==
  [call EXCEPT !.pc = "done", !.before = NoSnapshot,
     !.outcome = Fulfilled(IF call.op = "purchaseTicket"
                           THEN PurchaseResult(Confirmation(call, qty))
                           ELSE Confirmation(call, qty))]

\* ------------------------------------------------------------ inputs
\* arguments of the calls of the main specification: numbers
IdInputs  == {Num(n) : n \in 1..NoEventId}
QtyInputs == {Num(n) : n \in 1..MaxQty}

\* arguments of any JavaScript type (specification SpecArgs)
AnyValues(top) ==
  {Num(n) : n \in -1..top}
    \cup {JS("string", n) : n \in 0..1}
    \cup {JS("boolean", n) : n \in 0..1}
    \cup {JS("fraction", 1), NaN, JS("text", 0), JS("null", 0), Undefined}

\* event 1 starts with any number of tickets up to MaxTickets, event 2
\* with MaxTickets
InitTickets == {t \in [EventIds -> 0..MaxTickets] : t[2] = MaxTickets}

Init ==
  /\ original \in InitTickets
  /\ committed = [events |-> [e \in EventIds |-> EventRow(e, original[e])],
                  bookings |-> <<>>]
  /\ cur = committed
  /\ inTxn = FALSE
  /\ queue = <<>>
  /\ inflight = {}
  /\ locked = FALSE
  /\ calls = [c \in Calls |-> IdleCall]
  /\ reads = [r \in Readers |-> IdleRead]
  /\ faults = 0

\* ------------------------------------------------- confirmBooking
\* exports.confirmBooking up to the return of the executor   (lines 124-207)
StartBooking(c, op, eventId, quantity, customerName) ==
  /\ calls[c].pc = "idle"
  /\ IF c = 1 THEN TRUE ELSE calls[c - 1].pc # "idle"
  /\ LET call == [calls[c] EXCEPT
                    !.op = op, !.eventId = eventId, !.quantity = quantity,
                    !.customerName = DefaultGuest(customerName)]
     IN IF InvalidPositiveInt(ToNumber(eventId))
        THEN /\ calls' = [calls EXCEPT ![c] = Reject(call, ErrInvalidId)]
             /\ UNCHANGED <<queue, inflight, locked>>
        ELSE IF InvalidPositiveInt(ToNumber(quantity))
        THEN /\ calls' = [calls EXCEPT ![c] = Reject(call, ErrInvalidQty)]
             /\ UNCHANGED <<queue, inflight, locked>>
        ELSE \* db.serialize(() => db.run('BEGIN IMMEDIATE TRANSACTION', ...))
             LET S == Process(ScheduleStmt(Sched(queue, inflight, locked), c,
                                           TRUE, Cardinality(inflight)))
             IN /\ calls' = [calls EXCEPT ![c] = Issue(call, "BEGIN")]
                /\ queue' = S.queue
                /\ inflight' = S.inflight
                /\ locked' = S.locked
  /\ UNCHANGED <<committed, cur, inTxn, reads, faults, original>>

confirmBooking(c, eventId, quantity) ==
  StartBooking(c, "confirmBooking", eventId, quantity, Undefined)

\* confirmBooking(eventId, quantity, customerName)          (lines 124-207)
confirmBookingFor(c, eventId, quantity, customerName) ==
  StartBooking(c, "confirmBooking", eventId, quantity, customerName)

\* (mutant) the purchase books two tickets
purchaseTicket_TwoTickets(c, eventId) ==
  StartBooking(c, "purchaseTicket", eventId, Num(2), JS("text", 2))

\* exports.purchaseTicket                                     (lines 55-64)
purchaseTicket(c, eventId) ==
  StartBooking(c, "purchaseTicket", eventId, Num(1), JS("text", 2))

\* ----------------------------------- the HTTP handler confirmBooking
\* eventId == null || tickets == null      (clientController.js line 167)
IsNullish(v) == v.t \in {"null", "undefined"}

\* exports.confirmBooking of the controller up to its await: without
\* eventId or tickets it answers at once and the model is not called
\*                                      (clientController.js lines 164-178)
confirmBookingHandler(c, eventId, tickets, customerName) ==
  IF IsNullish(eventId) \/ IsNullish(tickets)
  THEN /\ calls[c].pc = "idle"
       /\ IF c = 1 THEN TRUE ELSE calls[c - 1].pc # "idle"
       /\ calls' = [calls EXCEPT ![c] =
                      [@ EXCEPT !.op = "handler", !.pc = "done",
                                !.eventId = eventId, !.quantity = tickets]]
       /\ UNCHANGED <<committed, cur, inTxn, queue, inflight, locked, reads,
                      faults, original>>
  ELSE StartBooking(c, "handler", eventId, tickets, OrGuest(customerName))

\* (mutant) the status of the error is used without the default 500
HttpStatus_NoDefault(call) ==
  IF call.outcome.state = "pending" THEN 400
  ELSE IF call.outcome.state = "fulfilled" THEN 200
  ELSE call.outcome.error.status

\* the status of the handler's response once the request is done: 400 when
\* the model was not called, 200 on a confirmation, error.status || 500
\* on a rejection               (clientController.js lines 168-170, 180-188)
HttpStatus(call) ==
  IF call.outcome.state = "pending" THEN 400
  ELSE IF call.outcome.state = "fulfilled" THEN 200
  ELSE IF call.outcome.error.status # 0 THEN call.outcome.error.status ELSE 500

\* (mutant) a BEGIN that finds the database locked is issued again
BeginCallback_Retries(c) ==
  /\ c \in inflight /\ calls[c].pc = "BEGIN"
  /\ UNCHANGED <<reads, original>>
  /\ \/ /\ inTxn
        /\ calls' = [calls EXCEPT ![c] = Reject(@, ErrNested)]
        /\ EndStmt(c)
        /\ StoreUnchanged /\ UNCHANGED faults
     \/ /\ ~inTxn
        /\ Fail(FALSE)
        /\ calls' = [calls EXCEPT ![c] = Issue(@, "BEGIN")]
        /\ IssueNext(c)
     \/ /\ ~inTxn
        /\ inTxn' = TRUE
        /\ UNCHANGED <<committed, cur, faults>>
        /\ calls' = [calls EXCEPT ![c] = [Issue(@, "SELECT") EXCEPT !.opened = TRUE,
                                                               !.before = committed]]
        /\ IssueNext(c)

\* (mutant) a failed BEGIN goes through the rollback helper
BeginCallback_RollsBack(c) ==
  /\ c \in inflight /\ calls[c].pc = "BEGIN"
  /\ UNCHANGED <<reads, original>>
  /\ \/ /\ inTxn
        /\ calls' = [calls EXCEPT ![c] = rollback(@, ErrNested)]
        /\ IssueNext(c)
        /\ StoreUnchanged /\ UNCHANGED faults
     \/ /\ ~inTxn
        /\ Fail(FALSE)
        /\ calls' = [calls EXCEPT ![c] = rollback(@, ErrBusy)]
        /\ IssueNext(c)
     \/ /\ ~inTxn
        /\ inTxn' = TRUE
        /\ UNCHANGED <<committed, cur, faults>>
        /\ calls' = [calls EXCEPT ![c] = [Issue(@, "SELECT") EXCEPT !.opened = TRUE,
                                                               !.before = committed]]
        /\ IssueNext(c)

\* (mutant) the callback of BEGIN does not look at its error
BeginCallback_IgnoresError(c) ==
  /\ c \in inflight /\ calls[c].pc = "BEGIN"
  /\ UNCHANGED <<reads, original>>
  /\ \/ /\ inTxn
        /\ StoreUnchanged /\ UNCHANGED faults
        /\ calls' = [calls EXCEPT ![c] = [Issue(@, "SELECT") EXCEPT !.opened = TRUE,
                                                               !.before = committed]]
        /\ IssueNext(c)
     \/ /\ ~inTxn
        /\ Fail(FALSE)
        /\ calls' = [calls EXCEPT ![c] = Reject(@, ErrBusy)]
        /\ EndStmt(c)
     \/ /\ ~inTxn
        /\ inTxn' = TRUE
        /\ UNCHANGED <<committed, cur, faults>>
        /\ calls' = [calls EXCEPT ![c] = [Issue(@, "SELECT") EXCEPT !.opened = TRUE,
                                                               !.before = committed]]
        /\ IssueNext(c)

\* callback of BEGIN IMMEDIATE TRANSACTION                   (lines 149-152)
BeginCallback(c) ==
  /\ c \in inflight /\ calls[c].pc = "BEGIN"
  /\ UNCHANGED <<reads, original>>
  /\ \/ \* the connection already has a transaction open
        /\ inTxn
        /\ calls' = [calls EXCEPT ![c] = Reject(@, ErrNested)]
        /\ EndStmt(c)
        /\ StoreUnchanged /\ UNCHANGED faults
     \/ \* another process holds the write lock of the file
        /\ ~inTxn
        /\ Fail(FALSE)
        /\ calls' = [calls EXCEPT ![c] = Reject(@, ErrBusy)]
        /\ EndStmt(c)
     \/ /\ ~inTxn
        /\ inTxn' = TRUE
        /\ UNCHANGED <<committed, cur, faults>>
        /\ calls' = [calls EXCEPT ![c] = [Issue(@, "SELECT") EXCEPT !.opened = TRUE,
                                                               !.before = committed]]
        /\ IssueNext(c)

\* (mutant) the availability check is missing
AfterSelect_NoStockCheck(call, eventRow, qty) ==
  IF eventRow = Null THEN rollback(call, ErrNotFound)
  ELSE [Issue(call, "UPDATE") EXCEPT !.selectedEvent = eventRow]

\* (mutant) the check for a missing row is missing
AfterSelect_NoFoundCheck(call, eventRow, qty) ==
  IF eventRow.tickets < qty THEN rollback(call, ErrOnly(eventRow))
  ELSE [Issue(call, "UPDATE") EXCEPT !.selectedEvent = eventRow]

\* (mutant) the availability check refuses an exact fit
AfterSelect_ExactFitRefused(call, eventRow, qty) ==
  IF eventRow = Null THEN rollback(call, ErrNotFound)
  ELSE IF eventRow.tickets <= qty THEN rollback(call, ErrOnly(eventRow))
  ELSE [Issue(call, "UPDATE") EXCEPT !.selectedEvent = eventRow]

\* (mutant) a missing row is rejected at once, without rollback(...)
AfterSelect_RejectsAtOnce(call, eventRow, qty) ==
  IF eventRow = Null THEN Reject(call, ErrNotFound)
  ELSE IF eventRow.tickets < qty THEN rollback(call, ErrOnly(eventRow))
  ELSE [Issue(call, "UPDATE") EXCEPT !.selectedEvent = eventRow]

\* what the callback of the SELECT does with the row         (lines 156-170)
AfterSelect(call, eventRow, qty) ==
  IF eventRow = Null THEN rollback(call, ErrNotFound)
  ELSE IF eventRow.tickets < qty THEN rollback(call, ErrOnly(eventRow))
  ELSE [Issue(call, "UPDATE") EXCEPT !.selectedEvent = eventRow]

\* callback of the SELECT                                    (lines 155-170)
SelectCallback(c) ==
  /\ c \in inflight /\ calls[c].pc = "SELECT"
  /\ UNCHANGED <<reads, original>>
  /\ IssueNext(c)
  /\ \/ \E autoRollback \in BOOLEAN :
          /\ Fail(autoRollback)
          /\ calls' = [calls EXCEPT ![c] = rollback(@, ErrIO)]
     \/ /\ StoreUnchanged /\ UNCHANGED faults
        /\ calls' = [calls EXCEPT ![c] =
                       AfterSelect(@, SelectEvent(cur, parsedId(c)), parsedQty(c))]

\* callback of the UPDATE                                    (lines 170-176)
UpdateCallback(c) ==
  /\ c \in inflight /\ calls[c].pc = "UPDATE"
  /\ UNCHANGED <<reads, original>>
  /\ IssueNext(c)
  /\ \/ \E autoRollback \in BOOLEAN :
          /\ Fail(autoRollback)
          /\ calls' = [calls EXCEPT ![c] = rollback(@, ErrIO)]
     \/ /\ Write(UpdateTickets(cur, parsedId(c), parsedQty(c)))
        /\ UNCHANGED faults
        /\ calls' = [calls EXCEPT ![c] = Issue(@, "INSERT")]

\* (mutant) the tickets value read by the SELECT is reported as it was
AfterInsert_NoSubtract(call, lastID, qty) ==
  [Issue(call, "COMMIT") EXCEPT !.bookingId = lastID]

\* what insertCallback keeps before it commits               (lines 179-185)
AfterInsert(call, lastID, qty) ==
  [Issue(call, "COMMIT") EXCEPT
     !.bookingId = lastID,
     !.selectedEvent = [@ EXCEPT !.tickets = @ - qty]]

\* insertCallback                                            (lines 176-185)
InsertCallback(c) ==
  /\ c \in inflight /\ calls[c].pc = "INSERT"
  /\ UNCHANGED <<reads, original>>
  /\ IssueNext(c)
  /\ \/ \E autoRollback \in BOOLEAN :
          /\ Fail(autoRollback)
          /\ calls' = [calls EXCEPT ![c] = rollback(@, ErrIO)]
     \/ /\ Write(InsertBooking(cur, parsedId(c), parsedQty(c),
                               BindText(OrGuest(calls[c].customerName))))
        /\ UNCHANGED faults
        /\ calls' = [calls EXCEPT ![c] = AfterInsert(@, LastID(cur), parsedQty(c))]

\* (mutant) a failed COMMIT rejects at once, without rollback(commitErr)
CommitCallback_NoRollback(c) ==
  /\ c \in inflight /\ calls[c].pc = "COMMIT"
  /\ UNCHANGED <<reads, original>>
  /\ \/ /\ ~inTxn
        /\ StoreUnchanged /\ UNCHANGED faults
        /\ calls' = [calls EXCEPT ![c] = Reject(@, ErrNoTxnCommit)]
        /\ EndStmt(c)
     \/ /\ inTxn
        /\ \E autoRollback \in BOOLEAN :
             /\ Fail(autoRollback)
             /\ calls' = [calls EXCEPT ![c] =
                            Reject(@, IF autoRollback THEN ErrIO ELSE ErrBusy)]
        /\ EndStmt(c)
     \/ /\ inTxn
        /\ committed' = cur
        /\ cur' = cur
        /\ inTxn' = FALSE
        /\ UNCHANGED faults
        /\ calls' = [calls EXCEPT ![c] = Resolve(@, parsedQty(c))]
        /\ EndStmt(c)

\* callback of COMMIT                                        (lines 185-198)
CommitCallback(c) ==
  /\ c \in inflight /\ calls[c].pc = "COMMIT"
  /\ UNCHANGED <<reads, original>>
  /\ \/ \* no transaction is open on the connection
        /\ ~inTxn
        /\ StoreUnchanged /\ UNCHANGED faults
        /\ calls' = [calls EXCEPT ![c] = rollback(@, ErrNoTxnCommit)]
        /\ IssueNext(c)
     \/ \* SQLITE_BUSY leaves the transaction open, other failures end it
        /\ inTxn
        /\ \E autoRollback \in BOOLEAN :
             /\ Fail(autoRollback)
             /\ calls' = [calls EXCEPT ![c] =
                            rollback(@, IF autoRollback THEN ErrIO ELSE ErrBusy)]
        /\ IssueNext(c)
     \/ /\ inTxn
        /\ committed' = cur
        /\ cur' = cur
        /\ inTxn' = FALSE
        /\ UNCHANGED faults
        /\ calls' = [calls EXCEPT ![c] = Resolve(@, parsedQty(c))]
        /\ EndStmt(c)

\* (mutant) the statement ends the transaction by keeping its writes
RollbackCallback_Keeps(c) ==
  /\ c \in inflight /\ calls[c].pc = "ROLLBACK"
  /\ UNCHANGED <<reads, faults, original>>
  /\ committed' = cur
  /\ cur' = cur
  /\ inTxn' = FALSE
  /\ calls' = [calls EXCEPT ![c] = Reject(@, @.error)]
  /\ EndStmt(c)

\* (mutant) the callback of ROLLBACK logs and returns without reject(error)
RollbackCallback_NoReject(c) ==
  /\ c \in inflight /\ calls[c].pc = "ROLLBACK"
  /\ UNCHANGED <<reads, faults, original>>
  /\ committed' = committed
  /\ IF inTxn
     THEN cur' = committed /\ inTxn' = FALSE
     ELSE cur' = cur /\ inTxn' = inTxn
  /\ calls' = [calls EXCEPT ![c].pc = "returned"]
  /\ EndStmt(c)

\* (mutant) a failed ROLLBACK rejects with the rollback error
RollbackCallback_Masks(c) ==
  /\ c \in inflight /\ calls[c].pc = "ROLLBACK"
  /\ UNCHANGED <<reads, faults, original>>
  /\ committed' = committed
  /\ IF inTxn
     THEN /\ cur' = committed /\ inTxn' = FALSE
          /\ calls' = [calls EXCEPT ![c] = Reject(@, @.error)]
     ELSE /\ cur' = cur /\ inTxn' = inTxn
          /\ calls' = [calls EXCEPT ![c] = Reject(@, ErrNoTxnRollback)]
  /\ EndStmt(c)

\* callback of ROLLBACK: the original error is delivered     (lines 140-145)
RollbackCallback(c) ==
  /\ c \in inflight /\ calls[c].pc = "ROLLBACK"
  /\ UNCHANGED <<reads, faults, original>>
  /\ committed' = committed
  /\ IF inTxn
     THEN cur' = committed /\ inTxn' = FALSE
     ELSE \* "cannot rollback - no transaction is active": logged only
          cur' = cur /\ inTxn' = inTxn
  /\ calls' = [calls EXCEPT ![c] = Reject(@, @.error)]
  /\ EndStmt(c)

\* ------------------------------------------------------------- reads
StartRead(r, op, eventId) ==
  /\ reads[r].pc \in {"idle", "done"}
  /\ LET S == ScheduleStmt(Sched(queue, inflight, locked), r, FALSE,
                           Cardinality(inflight))
     IN /\ queue' = S.queue
        /\ inflight' = S.inflight
        /\ locked' = S.locked
  /\ reads' = [reads EXCEPT ![r] = [IdleRead EXCEPT !.op = op, !.pc = "SELECT",
                                                    !.eventId = eventId]]
  /\ UNCHANGED <<committed, cur, inTxn, calls, faults, original>>

\* exports.getEventById                                       (lines 72-84)
getEventById(r, eventId) ==
  IF InvalidPositiveInt(ToNumber(eventId))
  THEN /\ reads[r].pc \in {"idle", "done"}
       /\ reads' = [reads EXCEPT ![r] =
                      [IdleRead EXCEPT !.op = "getEventById", !.pc = "done",
                                       !.eventId = eventId,
                                       !.outcome = Rejected(ErrInvalidId)]]
       /\ UNCHANGED <<committed, cur, inTxn, queue, inflight, locked, calls, faults,
                      original>>
  ELSE StartRead(r, "getEventById", eventId)

\* exports.getAllEvents                                       (lines 38-46)
getAllEvents(r) == StartRead(r, "getAllEvents", Undefined)

\* callback of db.get / db.all of a read                (lines 41-44, 79-82)
ReadCallback(r) ==
  /\ r \in inflight /\ reads[r].pc = "SELECT"
  /\ EndStmt(r)
  /\ UNCHANGED <<calls, original>>
  /\ \/ /\ Fail(FALSE)
        /\ reads' = [reads EXCEPT ![r].pc = "done", ![r].outcome = Rejected(ErrIO)]
     \/ /\ StoreUnchanged /\ UNCHANGED faults
        /\ reads' = [reads EXCEPT
             ![r].pc = "done",
             ![r].outcome =
                IF reads[r].op = "getEventById"
                THEN Fulfilled(SelectEvent(cur, ToNumber(reads[r].eventId).n))
                ELSE Fulfilled(Null),
             ![r].rows =
                IF reads[r].op = "getAllEvents"
                THEN [i \in 1..Cardinality(DOMAIN cur.events) |-> SelectAll(cur)[i]]
                ELSE <<>>]

\* ------------------------------------------------- the admin service
\* The admin service writes the same database file through a connection
\* of its own, one autocommit statement per request. While the client
\* connection holds the write lock of a BEGIN IMMEDIATE transaction such a
\* statement fails with SQLITE_BUSY and changes nothing.

\* updateEvent(id, {name, date, tickets})           (setup.js lines 132-160)
updateEvent(id, name, date, tickets) ==
  /\ ~inTxn
  /\ id \in DOMAIN committed.events
  /\ committed' = [committed EXCEPT !.events[id] =
                     [id |-> id, name |-> name, date |-> date, tickets |-> tickets]]
  /\ cur' = committed'
  /\ UNCHANGED <<inTxn, queue, inflight, locked, calls, reads, faults, original>>

\* createEvent({name, date, tickets}): the new row gets the next id
\*                                                   (setup.js lines 66-97)
createEvent(name, date, tickets) ==
  /\ ~inTxn
  /\ LET id == Cardinality(DOMAIN committed.events) + 1
     IN /\ id <= NoEventId
        /\ committed' = [committed EXCEPT !.events =
                           [e \in DOMAIN @ \cup {id} |->
                              IF e = id
                              THEN [id |-> id, name |-> name, date |-> date,
                                    tickets |-> tickets]
                              ELSE @[e]]]
  /\ cur' = committed'
  /\ UNCHANGED <<inTxn, queue, inflight, locked, calls, reads, faults, original>>

\* ------------------------------------------------------ specifications
\* the callbacks of the calls in C
Callbacks(C) ==
  \/ \E c \in C : BeginCallback(c)
  \/ \E c \in C : SelectCallback(c)
  \/ \E c \in C : UpdateCallback(c)
  \/ \E c \in C : InsertCallback(c)
  \/ \E c \in C : CommitCallback(c)
  \/ \E c \in C : RollbackCallback(c)

\* Spec: MaxCalls bookings (confirmBooking and purchaseTicket) on the
\* shared connection, with storage failures.
Next ==
  \/ \E c \in Calls, e \in IdInputs, q \in QtyInputs : confirmBooking(c, e, q)
  \/ \E c \in Calls, e \in IdInputs : purchaseTicket(c, e)
  \/ Callbacks(Calls)

Spec == Init /\ [][Next]_vars

\* SpecLive: two bookings on the shared connection, where the callback of
\* every statement that has been started is eventually invoked.
CallbackOf(c) ==
  \/ BeginCallback(c)
  \/ SelectCallback(c)
  \/ UpdateCallback(c)
  \/ InsertCallback(c)
  \/ CommitCallback(c)
  \/ RollbackCallback(c)

LiveCalls == {c \in Calls : c <= 2}

NextLive ==
  \/ \E c \in LiveCalls, e \in IdInputs, q \in QtyInputs : confirmBooking(c, e, q)
  \/ \E c \in LiveCalls, e \in IdInputs : purchaseTicket(c, e)
  \/ \E c \in LiveCalls : CallbackOf(c)

SpecLive ==
  Init /\ [][NextLive]_vars /\ \A c \in LiveCalls : WF_vars(CallbackOf(c))

\* SpecRead: reads of the events table running on the same connection as
\* the bookings.
NextRead ==
  \/ \E c \in Calls, e \in IdInputs, q \in QtyInputs : confirmBooking(c, e, q)
  \/ Callbacks(Calls)
  \/ \E r \in Readers, e \in IdInputs : getEventById(r, e)
  \/ \E r \in Readers : getAllEvents(r)
  \/ \E r \in Readers : ReadCallback(r)

SpecRead == Init /\ [][NextRead]_vars

\* SpecBurst: all confirmBooking calls are started together, before the
\* storage callback of any of them has run (so they are all in progress at
\* the same time), possibly while a read is pending on the connection.
BurstStart(c, eventId, quantity) ==
  /\ \A d \in Calls : calls[d].pc \in {"idle", "BEGIN"}
  /\ \A d \in Calls : ~calls[d].opened
  /\ confirmBooking(c, eventId, quantity)

NextBurst ==
  \/ \E c \in Calls, e \in IdInputs, q \in QtyInputs : BurstStart(c, e, q)
  \/ Callbacks(Calls)
  \/ \E r \in Readers, e \in IdInputs : getEventById(r, e)
  \/ \E r \in Readers : getAllEvents(r)
  \/ \E r \in Readers : ReadCallback(r)

SpecBurst == Init /\ [][NextBurst]_vars

\* SpecShared: two bookings and one listing of the events (GET /api/events)
\* sharing the connection, so that a BEGIN can be queued behind a pending
\* statement and run inside the transaction of the other booking.
SharedCalls == {c \in Calls : c <= 2}
SharedReaders == {r \in Readers : r <= MaxCalls + 1}

NextShared ==
  \/ \E c \in SharedCalls, e \in IdInputs, q \in QtyInputs : confirmBooking(c, e, q)
  \/ Callbacks(SharedCalls)
  \/ \E r \in SharedReaders : getAllEvents(r)
  \/ \E r \in SharedReaders : ReadCallback(r)

SpecShared == Init /\ [][NextShared]_vars

\* SpecAdmin: the bookings of the client service while the admin service
\* sets the tickets of event 1 and creates a third event in the same
\* database file.
AdminCalls == {c \in Calls : c <= 2}

NextAdmin ==
  \/ \E c \in AdminCalls, e \in IdInputs, q \in QtyInputs : confirmBooking(c, e, q)
  \/ Callbacks(AdminCalls)
  \/ \E t \in 0..MaxTickets : updateEvent(1, EventName(1), EventDate(1), t)
  \/ createEvent("Hackathon 2025", "2025-11-08", MaxTickets)

SpecAdmin == Init /\ [][NextAdmin]_vars

\* the call of the specifications that vary one call's arguments
ArgCalls == {1}

\* SpecNames: one call with a customerName of any JavaScript type.
NameValues ==
  {Undefined, EmptyString, JS("null", 0), NaN, JS("text", 1), Guest,
   JS("string", 1), JS("fraction", 1)}
    \cup {Num(n) : n \in 0..1} \cup {JS("boolean", n) : n \in 0..1}

NextNames ==
  \/ \E c \in ArgCalls, e \in IdInputs, q \in QtyInputs, name \in NameValues :
       confirmBookingFor(c, e, q, name)
  \/ Callbacks(ArgCalls)

SpecNames == Init /\ [][NextNames]_vars

\* SpecHttp: one request to the HTTP handler with a body of any
\* JavaScript values.
NextHttp ==
  \/ \E c \in ArgCalls, e \in AnyValues(NoEventId), q \in AnyValues(MaxQty),
        name \in {Undefined, JS("text", 1)} :
       confirmBookingHandler(c, e, q, name)
  \/ Callbacks(ArgCalls)

SpecHttp == Init /\ [][NextHttp]_vars

\* SpecReadArgs: getEventById with an id of any JavaScript type, beside one
\* booking on the same connection.
NextReadArgs ==
  \/ \E r \in Readers, e \in AnyValues(NoEventId) : getEventById(r, e)
  \/ \E r \in Readers : ReadCallback(r)
  \/ \E c \in ArgCalls, e \in IdInputs, q \in QtyInputs : confirmBooking(c, e, q)
  \/ Callbacks(ArgCalls)

SpecReadArgs == Init /\ [][NextReadArgs]_vars

\* SpecUpdate: the UPDATE statement of line 168 taken on its own: it is
\* executed with any parameters [parsedQty, parsedId] on whatever the table
\* holds, in autocommit mode, with no SELECT before it.
TicketsFloor == 0 - (2 * MaxTickets * MaxQty)

ExecUpdate(id, qty) ==
  /\ ~inTxn
  /\ id \in DOMAIN cur.events => cur.events[id].tickets > TicketsFloor
  /\ Write(UpdateTickets(cur, id, qty))
  /\ UNCHANGED <<queue, inflight, locked, calls, reads, faults, original>>

NextUpdate ==
  \E e \in IdInputs, q \in QtyInputs : ExecUpdate(e.n, q.n)

SpecUpdate == Init /\ [][NextUpdate]_vars

\* SpecArgs: one call with arguments of any JavaScript type.
NextArgs ==
  \/ \E c \in ArgCalls, e \in AnyValues(NoEventId), q \in AnyValues(MaxQty) :
       confirmBooking(c, e, q)
  \/ Callbacks(ArgCalls)

SpecArgs == Init /\ [][NextArgs]_vars

\* =================================================================
\* Properties
\* =================================================================
Started(c) == calls[c].pc # "idle"
Done(c) == calls[c].pc = "done"
FulfilledCall(c) == calls[c].outcome.state = "fulfilled"
RejectedCall(c) == calls[c].outcome.state = "rejected"
AllSettled == \A c \in Calls : calls[c].pc \in {"idle", "done"}
\* an error raised by the store (no status): the StorageFailure kind
StorageFailure(e) == e.status = 0 /\ e.code # ""
Settles(c) == calls[c].pc # "done" /\ calls'[c].pc = "done"

RECURSIVE SumQuantity(_)
SumQuantity(rows) ==
  IF rows = <<>> THEN 0 ELSE Head(rows).quantity + SumQuantity(Tail(rows))

BookingsOf(view, e) == SelectSeq(view.bookings, LAMBDA b : b.event_id = e)

RECURSIVE SumFulfilled(_, _)
SumFulfilled(C, e) ==
  IF C = {} THEN 0
  ELSE LET c == CHOOSE x \in C : TRUE
       IN (IF FulfilledCall(c) /\ parsedId(c) = e THEN parsedQty(c) ELSE 0)
            + SumFulfilled(C \ {c}, e)

\* C1: in every committed state every event's tickets value is >= 0,
\* whatever confirmBooking and purchaseTicket calls ran and however their
\* callbacks interleaved.
C1_TicketsNeverNegative ==
  \A e \in EventIds : committed.events[e].tickets >= 0

\* C1 witness: an event sold out to the last ticket by a purchaseTicket
\* while another call for it was refused for lack of tickets.
C1_Witness ==
  \E a, b \in Calls :
    /\ a # b /\ Done(a) /\ Done(b)
    /\ calls[a].op = "purchaseTicket" /\ FulfilledCall(a)
    /\ calls[b].op = "confirmBooking" /\ RejectedCall(b)
    /\ calls[b].outcome.error.message = "Only tickets remaining for"
    /\ parsedId(a) = parsedId(b)
    /\ original[parsedId(a)] > 0
    /\ committed.events[parsedId(a)].tickets = 0

\* C2 (conservation): in every committed state, for every event, the
\* original ticket count minus the quantities of the booking rows of that
\* event equals the event's current tickets.
C2_Conservation ==
  \A e \in EventIds :
    original[e] - SumQuantity(BookingsOf(committed, e)) = committed.events[e].tickets

\* C2 witness: two committed bookings for two different events, one of
\* them for more than one ticket.
C2_Witness ==
  /\ Len(committed.bookings) = 2
  /\ \A e \in EventIds : SumQuantity(BookingsOf(committed, e)) > 0
  /\ \E i \in 1..Len(committed.bookings) : committed.bookings[i].quantity = 2

\* C3 (atomicity): when a call whose BEGIN succeeded is rejected, the
\* database file is what it was when the transaction opened: same tickets
\* of every event, same booking rows; and nothing is left uncommitted.
C3_Atomicity ==
  [][\A c \in Calls :
       (Settles(c) /\ calls'[c].outcome.state = "rejected" /\ calls[c].opened)
         => /\ committed' = calls[c].before
            /\ cur' = committed'
    ]_vars

\* C3 witness: a call rejected by a storage failure that struck after its
\* UPDATE had run, and another call that booked.
C3_Witness ==
  \E a, b \in Calls :
    /\ Done(a) /\ RejectedCall(a) /\ calls[a].opened
    /\ StorageFailure(calls[a].outcome.error)
    /\ \E i \in 1..Len(calls[a].issued) : calls[a].issued[i] = "INSERT"
    /\ Done(b) /\ FulfilledCall(b)

\* C6: once all calls have settled, every event's tickets equals its
\* original value minus the quantities of exactly the fulfilled calls: a
\* rejected call took nothing and a fulfilled call's decrement is committed.
C6_OutcomeAgreesWithStorage ==
  AllSettled =>
    \A e \in EventIds :
      committed.events[e].tickets = original[e] - SumFulfilled(Calls, e)

\* C6 witness: all calls were for one event and have settled, one was
\* fulfilled for two tickets, one was rejected after its UPDATE had run.
C6_Witness ==
  /\ \A c \in Calls : Done(c) /\ parsedId(c) = 1
  /\ \E c \in Calls : FulfilledCall(c) /\ parsedQty(c) = 2
  /\ \E c \in Calls :
       /\ RejectedCall(c)
       /\ \E i \in 1..Len(calls[c].issued) : calls[c].issued[i] = "UPDATE"

\* C9: a call with a valid id that matches no event row is never
\* fulfilled, never gets to the UPDATE, the INSERT or the COMMIT, leaves no
\* booking row for that id, and is rejected with status 404 'Event not
\* found' unless the store failed first (StorageFailure).
C9_NotFound ==
  \A c \in Calls :
    (Started(c) /\ parsedId(c) = NoEventId) =>
      /\ calls[c].pc \notin {"UPDATE", "INSERT", "COMMIT"}
      /\ ~FulfilledCall(c)
      /\ BookingsOf(cur, NoEventId) = <<>>
      /\ BookingsOf(committed, NoEventId) = <<>>
      /\ Done(c) => \/ calls[c].outcome.error = ErrNotFound
                    \/ StorageFailure(calls[c].outcome.error)
      /\ (Done(c) /\ faults = 0 /\ calls[c].opened)
            => calls[c].outcome.error = ErrNotFound

\* C9 witness: such a call rejected with 404 while a booking of an
\* existing event is committed.
C9_Witness ==
  \E c \in Calls :
    /\ Done(c) /\ parsedId(c) = NoEventId
    /\ calls[c].outcome.error.status = 404
    /\ calls[c].outcome.error.message = "Event not found"
    /\ committed.bookings # <<>>

\* C10: when the row exists and has fewer tickets than requested, the call
\* is rejected with the insufficient-inventory error (status 400), and the
\* error carries the event's current tickets count and its name.
C10_InsufficientReportsCount ==
  [][\A c \in Calls :
       LET e == parsedId(c) IN
       /\ \* the SELECT found too few tickets: this error is prepared
          ( /\ calls[c].pc = "SELECT" /\ calls'[c].pc # "SELECT"
            /\ faults' = faults
            /\ e \in EventIds
            /\ committed.events[e].tickets < parsedQty(c) )
          => /\ calls'[c].pc = "ROLLBACK"
             /\ calls'[c].error =
                  Err(400, "", "Only tickets remaining for",
                      committed.events[e].tickets, EventName(e))
       /\ \* and it is what the caller gets
          ( /\ Settles(c) /\ calls[c].pc = "ROLLBACK"
            /\ calls[c].error.status = 400 )
          => /\ e \in EventIds
             /\ committed'.events[e].tickets < parsedQty(c)
             /\ calls'[c].outcome =
                  Rejected(Err(400, "", "Only tickets remaining for",
                               committed'.events[e].tickets, EventName(e)))
    ]_vars

\* C10 witness: a call refused with "Only 1 tickets remaining" after an
\* earlier booking had taken a ticket of that event.
C10_Witness ==
  \E c \in Calls :
    /\ Done(c) /\ calls[c].outcome.error.message = "Only tickets remaining for"
    /\ calls[c].outcome.error.tickets = 1
    /\ original[parsedId(c)] = 2
    /\ calls[c].outcome.error.name = EventName(parsedId(c))

\* C4: two confirmBooking(e, 1) calls started concurrently (SpecBurst)
\* against an event e with exactly 1 ticket (no other call touches e, the
\* store never fails) end with exactly one fulfilled and the other rejected
\* with the insufficient-inventory error.
C4_ExactlyOneWinner ==
  \A a, b \in Calls :
    ( /\ a # b /\ Done(a) /\ Done(b)
      /\ faults = 0
      /\ parsedId(a) \in EventIds /\ parsedId(b) = parsedId(a)
      /\ original[parsedId(a)] = 1
      /\ parsedQty(a) = 1 /\ parsedQty(b) = 1
      /\ \A d \in Calls \ {a, b} : Started(d) => parsedId(d) # parsedId(a) )
    => \E w, l \in {a, b} :
         /\ w # l
         /\ FulfilledCall(w)
         /\ RejectedCall(l)
         /\ calls[l].outcome.error = ErrOnly(EventRow(parsedId(a), 0))

\* what one confirmBooking call running alone, with a store that does not
\* fail, does to the database and returns                  (lines 152-197)
SerialCall(view, call) ==
  LET id  == ToNumber(call.eventId).n
      qty == ToNumber(call.quantity).n
      row == SelectEvent(view, id)
      after == [AfterInsert([call EXCEPT !.selectedEvent = row], LastID(view), qty)
                  EXCEPT !.pc = "COMMIT"]
  IN IF row = Null THEN [view |-> view, outcome |-> Rejected(ErrNotFound)]
     ELSE IF row.tickets < qty THEN [view |-> view, outcome |-> Rejected(ErrOnly(row))]
     ELSE [view |-> InsertBooking(UpdateTickets(view, id, qty), id, qty,
                                  BindText(OrGuest(call.customerName))),
           outcome |-> Resolve(after, qty).outcome]

\* the calls of `order` run one at a time, in that order
RECURSIVE SerialRun(_, _, _)
SerialRun(order, view, outcomes) ==
  IF order = <<>> THEN [view |-> view, outcomes |-> outcomes]
  ELSE LET r == SerialCall(view, calls[Head(order)])
       IN SerialRun(Tail(order), r.view,
                    [outcomes EXCEPT ![Head(order)] = r.outcome])

Orders(S) ==
  {o \in [1..Cardinality(S) -> S] : \A i, j \in 1..Cardinality(S) : o[i] = o[j] => i = j}

InitialView ==
  [events |-> [e \in EventIds |-> EventRow(e, original[e])], bookings |-> <<>>]

\* C5 (serializability per event): when concurrently started calls
\* (SpecBurst) against one event have all settled (the store never failed),
\* the final tickets, the booking rows and every call's result are those of
\* running the same calls one at a time in some order.
C5_Serializable ==
  LET S == {c \in Calls : Started(c)} IN
  ( /\ AllSettled /\ faults = 0 /\ S # {}
    /\ \A a, b \in S : parsedId(a) = parsedId(b) )
  => \E o \in Orders(S) :
       LET r == SerialRun(o, InitialView, [c \in Calls |-> Pending])
       IN /\ r.view = committed
          /\ \A c \in S : r.outcomes[c] = calls[c].outcome

\* C7: a read never returns a tickets value that is not committed: what
\* getEventById and getAllEvents deliver is the tickets value in the
\* database file at the time the SELECT ran.
C7_NoDirtyRead ==
  [][\A r \in Readers :
       ( /\ reads[r].pc = "SELECT" /\ reads'[r].pc = "done"
         /\ reads'[r].outcome.state = "fulfilled" )
       => /\ \A i \in DOMAIN reads'[r].rows :
               reads'[r].rows[i].tickets
                 = committed.events[reads'[r].rows[i].id].tickets
          /\ reads'[r].outcome.value.id \in EventIds
               => reads'[r].outcome.value.tickets
                    = committed.events[reads'[r].outcome.value.id].tickets
    ]_vars

\* the value is a positive integer, as a number or as its decimal numeral
DenotesPositiveInteger(v) == v.t \in {"number", "string"} /\ v.n > 0

\* C8: a call whose eventId or quantity is not a positive integer is
\* rejected with status 400 and issues no storage statement.
C8_ValidationPrecedesIO ==
  \A c \in Calls :
    ( /\ Started(c)
      /\ \/ ~DenotesPositiveInteger(calls[c].eventId)
         \/ ~DenotesPositiveInteger(calls[c].quantity) )
    => /\ Done(c)
       /\ RejectedCall(c)
       /\ calls[c].outcome.error.status = 400
       /\ calls[c].issued = <<>>

\* the call has issued the statement `stmt`
HasIssued(call, stmt) == \E i \in 1..Len(call.issued) : call.issued[i] = stmt

\* C11 (boundary): a call asking for exactly the n > 0 tickets an event has
\* passes the availability check, is fulfilled when the store does not fail,
\* reports remainingTickets = 0 and leaves tickets = 0; a call that finds
\* tickets = 0 is rejected with the insufficient-inventory error reporting
\* 0, and tickets stays 0.
C11_Boundary ==
  [][\A c \in Calls :
       LET e == parsedId(c)
           q == parsedQty(c)
           soldOut == ErrOnly(EventRow(e, 0))
       IN
       /\ ( /\ calls[c].pc = "SELECT" /\ calls'[c].pc # "SELECT"
            /\ faults' = faults /\ e \in EventIds
            /\ committed.events[e].tickets = q )
          => calls'[c].pc = "UPDATE"
       /\ ( /\ calls'[c].pc = "done" /\ faults' = 0
            /\ HasIssued(calls'[c], "UPDATE") )
          => calls'[c].outcome.state = "fulfilled"
       /\ ( /\ Settles(c) /\ calls'[c].outcome.state = "fulfilled"
            /\ calls[c].before.events[e].tickets = q )
          => /\ committed'.events[e].tickets = 0
             /\ calls[c].op = "confirmBooking"
                  => calls'[c].outcome.value.remainingTickets = 0
             /\ calls[c].op = "purchaseTicket"
                  => calls'[c].outcome.value.remaining = 0
       /\ ( /\ calls[c].pc = "SELECT" /\ calls'[c].pc # "SELECT"
            /\ faults' = faults /\ e \in EventIds
            /\ committed.events[e].tickets = 0 )
          => /\ calls'[c].pc = "ROLLBACK"
             /\ calls'[c].error = soldOut
       /\ ( /\ Settles(c) /\ calls[c].pc = "ROLLBACK" /\ e \in EventIds
            /\ calls[c].error = soldOut )
          => /\ calls'[c].outcome = Rejected(soldOut)
             /\ committed'.events[e].tickets = 0
    ]_vars

\* C11 witness: a confirmBooking took both tickets of an event that had
\* two and reported 0 remaining; a following call for that event was
\* refused with "Only 0 tickets remaining".
C11_Witness ==
  \E a, b \in Calls :
    /\ a # b /\ Done(a) /\ Done(b) /\ parsedId(a) = parsedId(b)
    /\ parsedId(a) \in EventIds
    /\ calls[a].op = "confirmBooking" /\ FulfilledCall(a)
    /\ parsedQty(a) = 2 /\ original[parsedId(a)] = 2
    /\ calls[a].outcome.value.remainingTickets = 0
    /\ committed.events[parsedId(a)].tickets = 0
    /\ calls[b].outcome = Rejected(ErrOnly(EventRow(parsedId(a), 0)))

\* C12: when a confirmBooking(e, q) is fulfilled, its remainingTickets is
\* the tickets value of e in the database right after the commit (what a
\* getEventById(e) on the connection reads at that moment) and its
\* requestedTickets is q, whatever the other bookings and the admin
\* service wrote meanwhile.
C12_RemainingIsFreshRead ==
  [][\A c \in Calls :
       ( /\ Settles(c) /\ calls'[c].outcome.state = "fulfilled"
         /\ calls[c].op = "confirmBooking" )
       => /\ calls'[c].outcome.value.remainingTickets
               = SelectEvent(cur', parsedId(c)).tickets
          /\ calls'[c].outcome.value.remainingTickets
               = SelectEvent(committed', parsedId(c)).tickets
          /\ calls'[c].outcome.value.requestedTickets = parsedQty(c)
    ]_vars

\* C12 witness: a booking of two tickets fulfilled with one ticket
\* remaining, for an event that started with fewer tickets than that: the
\* admin service had raised its tickets before the booking read them.
C12_Witness ==
  \E c \in Calls :
    /\ Done(c) /\ FulfilledCall(c) /\ parsedQty(c) = 2
    /\ parsedId(c) \in EventIds
    /\ original[parsedId(c)] < 2
    /\ calls[c].outcome.value.remainingTickets = 0
    /\ calls[c].outcome.value.requestedTickets = 2
    /\ committed.events[parsedId(c)].tickets = 0
    /\ \E d \in Calls : d # c /\ Done(d) /\ FulfilledCall(d)

\* the kind a rejection value carries: its status property (0: none)
ErrorKind(e) == e.status

\* which of the four failure conditions the rejected call c ran into, told
\* from its arguments, the rows the database had and the failures of the
\* store (for a call running alone on the connection)
Condition(c) ==
  IF \/ InvalidPositiveInt(ToNumber(calls[c].eventId))
     \/ InvalidPositiveInt(ToNumber(calls[c].quantity))
  THEN "InvalidArgument"
  ELSE IF faults > 0 THEN "StorageFailure"
  ELSE IF parsedId(c) \notin EventIds THEN "NotFound"
  ELSE "InsufficientInventory"

\* C13: the kind carried by a rejection tells which of the four failure
\* conditions occurred: it is the kind of the invalid-argument errors only
\* for InvalidArgument, the kind of the not-found error only for NotFound,
\* no status only for StorageFailure, and for InsufficientInventory it is
\* none of these.
C13_DistinctKinds ==
  \A c \in Calls :
    RejectedCall(c) =>
      LET k == ErrorKind(calls[c].outcome.error) IN
      /\ (k \in {ErrorKind(ErrInvalidId), ErrorKind(ErrInvalidQty)})
            <=> Condition(c) = "InvalidArgument"
      /\ (k = ErrorKind(ErrNotFound)) <=> Condition(c) = "NotFound"
      /\ (k = ErrorKind(ErrIO)) <=> Condition(c) = "StorageFailure"

\* the argument is a string that is not empty
NonEmptyString(v) == v.t \in {"text", "string"}

\* C14: the booking row a fulfilled call inserted holds "Guest" as
\* customer_name when the customerName argument was absent, empty or not a
\* string, and the argument itself when it was a non-empty string.
C14_GuestDefault ==
  \A c \in Calls :
    (Done(c) /\ FulfilledCall(c)) =>
      LET row == committed.bookings[calls[c].outcome.value.bookingId]
          name == calls[c].customerName
      IN row.customer_name =
           IF NonEmptyString(name) THEN BindText(name) ELSE "Guest"

\* the statement call a has issued waits in the binding's queue while a
\* statement of another call is executing
WaitsForOtherCall(a) ==
  /\ \E i \in 1..Len(queue) : queue[i].req = a
  /\ \E b \in Calls \ {a} : b \in inflight

\* C15: a confirmBooking call for an event with enough tickets, running
\* while only calls for other events are in flight (the store never fails),
\* is never made to wait for one of them and is fulfilled.
C15_EventsIndependent ==
  \A a \in Calls :
    ( /\ Started(a) /\ faults = 0
      /\ parsedId(a) \in EventIds
      /\ original[parsedId(a)] >= parsedQty(a)
      /\ \A b \in Calls \ {a} : Started(b) => parsedId(b) # parsedId(a) )
    => /\ ~WaitsForOtherCall(a)
       /\ Done(a) => FulfilledCall(a)

\* C16: a transaction is open on the connection only while the call whose
\* BEGIN opened it is unsettled: once a call has settled, by COMMIT, by
\* ROLLBACK, or after a COMMIT or a ROLLBACK that failed, nothing it opened
\* is still open and none of its writes is left uncommitted.
C16_TransactionEnds ==
  /\ inTxn => \E d \in Calls : calls[d].opened /\ ~Done(d)
  /\ (\A c \in Calls : calls[c].opened => Done(c)) => (~inTxn /\ cur = committed)

\* C16 witness: a call settled after its COMMIT failed leaving the
\* transaction open, and its ROLLBACK ended it.
C16_Witness ==
  \E c \in Calls :
    /\ Done(c) /\ calls[c].opened
    /\ HasIssued(calls[c], "COMMIT") /\ HasIssued(calls[c], "ROLLBACK")
    /\ calls[c].outcome.error = ErrBusy
    /\ ~inTxn

\* C17: every call that was made eventually settles (its promise is
\* fulfilled or rejected), provided the callback of every started statement
\* is eventually invoked.
C17_EventuallySettles ==
  \A c \in Calls : Started(c) ~> (Done(c) /\ calls[c].outcome.state # "pending")

\* C17 witness: all calls have settled, one of them rejected by its BEGIN,
\* which found the database locked, one of them fulfilled.
C17_Witness ==
  /\ \A c \in Calls : Done(c)
  /\ \E c \in Calls : calls[c].issued = <<"BEGIN">> /\ calls[c].outcome = Rejected(ErrBusy)
  /\ \E c \in Calls : FulfilledCall(c) /\ calls[c].op = "purchaseTicket"

\* C18: the status of the HTTP handler's response is 400 without a call
\* of the model when eventId or tickets is null or undefined; otherwise 200
\* on success, 400 for an invalid argument, 404 for an event not found,
\* 400 for insufficient inventory and 500 for a storage failure.
C18_HttpStatusMapping ==
  \A c \in Calls :
    (Done(c) /\ calls[c].op = "handler") =>
      LET status == HttpStatus(calls[c]) IN
      IF IsNullish(calls[c].eventId) \/ IsNullish(calls[c].quantity)
      THEN status = 400 /\ calls[c].issued = <<>> /\ calls[c].outcome = Pending
      ELSE /\ calls[c].outcome.state # "pending"
           /\ status =
                IF FulfilledCall(c) THEN 200
                ELSE CASE Condition(c) = "InvalidArgument" -> 400
                       [] Condition(c) = "NotFound" -> 404
                       [] Condition(c) = "InsufficientInventory" -> 400
                       [] Condition(c) = "StorageFailure" -> 500

\* C18 witness: a request answered with 500 after the store failed in the
\* middle of its transaction.
C18_Witness ==
  \E c \in Calls :
    /\ Done(c) /\ calls[c].op = "handler" /\ RejectedCall(c)
    /\ StorageFailure(calls[c].outcome.error)
    /\ HasIssued(calls[c], "INSERT")
    /\ HttpStatus(calls[c]) = 500

\* new Date(date).getTime() of the dates of the events table, in days
DateTime(date) ==
  CASE date = "2025-04-12" -> 20190
    [] date = "2025-10-15" -> 20376
    [] date = "2025-11-08" -> 20400
    [] OTHER -> 0

\* C19: the rows a getAllEvents delivers are all the events, ordered by
\* date ascending: each row's date is <= the date of the row after it.
C19_ListOrderedByDate ==
  \A r \in Readers :
    ( /\ reads[r].pc = "done" /\ reads[r].op = "getAllEvents"
      /\ reads[r].outcome.state = "fulfilled" )
    => /\ {reads[r].rows[i].id : i \in DOMAIN reads[r].rows} = DOMAIN committed.events
       /\ \A i \in 1..(Len(reads[r].rows) - 1) :
            DateTime(reads[r].rows[i].date) <= DateTime(reads[r].rows[i + 1].date)

\* C20: a getEventById whose id is not a positive integer is rejected with
\* status 400 and reads nothing from storage; with a valid id it reads
\* storage and resolves to the row with that id, or to null when there is
\* none; no step of it changes a row.
C20_GetEventById ==
  [][\A r \in Readers :
       /\ ( /\ reads[r].pc \in {"idle", "done"} /\ reads'[r] # reads[r]
            /\ reads'[r].op = "getEventById" )
          => IF DenotesPositiveInteger(reads'[r].eventId)
             THEN reads'[r].pc = "SELECT"
             ELSE /\ reads'[r].pc = "done"
                  /\ reads'[r].outcome.state = "rejected"
                  /\ reads'[r].outcome.error.status = 400
                  /\ UNCHANGED <<queue, inflight>>
       /\ ( /\ reads[r].pc = "SELECT" /\ reads'[r].pc = "done"
            /\ reads[r].op = "getEventById"
            /\ reads'[r].outcome.state = "fulfilled" )
          => reads'[r].outcome.value
               = IF reads[r].eventId.n \in DOMAIN cur.events
                 THEN cur.events[reads[r].eventId.n]
                 ELSE Null
       /\ reads'[r] # reads[r] => UNCHANGED <<committed, cur>>
    ]_vars

\* C21: a purchaseTicket(e) that is fulfilled has lowered the tickets of e
\* by exactly 1, has added one booking row of quantity 1 for e and returns
\* as `remaining` the tickets e had before minus 1; a purchaseTicket for an
\* id with no row is never fulfilled, is rejected, and leaves the database
\* as it was.
C21_PurchaseTicket ==
  [][\A c \in Calls :
       LET e == parsedId(c)
           was == calls[c].before
       IN
       (Settles(c) /\ calls[c].op = "purchaseTicket") =>
         /\ calls'[c].outcome.state = "fulfilled" =>
              /\ e \in EventIds
              /\ committed'.events[e].tickets = was.events[e].tickets - 1
              /\ committed'.bookings =
                   Append(was.bookings,
                          [id |-> Len(was.bookings) + 1, event_id |-> e,
                           quantity |-> 1, customer_name |-> "Direct Purchase"])
              /\ calls'[c].outcome.value.remaining = was.events[e].tickets - 1
              /\ calls'[c].outcome.value.bookingId = Len(was.bookings) + 1
         /\ e \notin EventIds =>
              /\ calls'[c].outcome.state = "rejected"
              /\ UNCHANGED <<committed, cur>>
              /\ calls[c].opened => committed = was
    ]_vars

\* C21 witness: a purchaseTicket took one of the two tickets of an event
\* and reported 1 remaining; a purchaseTicket for an id with no row was
\* rejected with 'Event not found'.
C21_Witness ==
  \E a, b \in Calls :
    /\ Done(a) /\ calls[a].op = "purchaseTicket" /\ FulfilledCall(a)
    /\ original[parsedId(a)] = 2
    /\ calls[a].outcome.value.remaining = 1
    /\ Done(b) /\ calls[b].op = "purchaseTicket"
    /\ parsedId(b) = NoEventId
    /\ calls[b].outcome = Rejected(ErrNotFound)

\* C22: every step in which the tickets of some event decrease in the
\* database is the commit of a confirmBooking transaction for that event,
\* which also adds a booking row for it: neither the admin service nor any
\* other operation lowers tickets.
C22_OnlyBookingLowersTickets ==
  [][\A e \in EventIds :
       committed'.events[e].tickets < committed.events[e].tickets
       => \E c \in Calls :
            /\ calls[c].pc = "COMMIT" /\ Settles(c)
            /\ calls'[c].outcome.state = "fulfilled"
            /\ parsedId(c) = e
            /\ Len(committed'.bookings) = Len(committed.bookings) + 1
            /\ committed'.bookings[Len(committed'.bookings)].event_id = e
    ]_vars

\* the rows of `old` are the first rows of `new`, unchanged
IsPrefix(old, new) ==
  /\ Len(old) <= Len(new)
  /\ \A i \in 1..Len(old) : new[i] = old[i]

\* C23 (append-only bookings): no step modifies or removes a committed
\* booking row; a step adds at most one row, and it adds one exactly when a
\* call is fulfilled in it: that row has the call's event as event_id, its
\* quantity as quantity and an id no earlier row has; a call that is
\* rejected adds none.
C23_BookingsAppendOnly ==
  [][LET old == committed.bookings
         new == committed'.bookings
     IN /\ IsPrefix(old, new)
        /\ Len(new) <= Len(old) + 1
        /\ Len(new) = Len(old) + 1
             <=> \E c \in Calls : Settles(c) /\ calls'[c].outcome.state = "fulfilled"
        /\ \A c \in Calls :
             (Settles(c) /\ calls'[c].outcome.state = "fulfilled") =>
               /\ new[Len(new)].event_id = parsedId(c)
               /\ new[Len(new)].quantity = parsedQty(c)
               /\ parsedQty(c) > 0
               /\ \A i \in 1..Len(old) : old[i].id # new[Len(new)].id
        /\ \A c \in Calls :
             (Settles(c) /\ calls'[c].outcome.state = "rejected") => new = old
    ]_vars

\* C23 witness: two committed booking rows for the same event, the second
\* added by a later call under a new id.
C23_Witness ==
  /\ Len(committed.bookings) = 2
  /\ committed.bookings[1].event_id = committed.bookings[2].event_id
  /\ committed.bookings[1].id = 1 /\ committed.bookings[2].id = 2
  /\ committed.bookings[1].customer_name # committed.bookings[2].customer_name

LastIssued(call) == call.issued[Len(call.issued)]

\* C25 (as claimed): every call rejected after validation, whatever the
\* step that failed (BEGIN included), was rejected by the callback of a
\* ROLLBACK it had issued.
C25_RollbackBeforeAnyError ==
  \A c \in Calls :
    (Done(c) /\ RejectedCall(c) /\ calls[c].issued # <<>>)
      => LastIssued(calls[c]) = "ROLLBACK"

\* C25 (amended): every call rejected after its BEGIN succeeded (error of
\* the SELECT, event not found, insufficient tickets, error of the UPDATE,
\* the INSERT or the COMMIT) was rejected by the callback of the one
\* ROLLBACK it had issued, with the error that caused the rollback; a call
\* whose BEGIN failed was rejected at once and issued no ROLLBACK.
C25_RollbackBeforeError ==
  \A c \in Calls :
    (Done(c) /\ RejectedCall(c) /\ calls[c].issued # <<>>) =>
      IF calls[c].opened
      THEN /\ LastIssued(calls[c]) = "ROLLBACK"
           /\ \A i \in 1..(Len(calls[c].issued) - 1) : calls[c].issued[i] # "ROLLBACK"
           /\ calls[c].outcome.error = calls[c].error
      ELSE calls[c].issued = <<"BEGIN">>

\* C25 witness: a call refused for lack of tickets after BEGIN, SELECT and
\* ROLLBACK, and a call rejected by its BEGIN alone.
C25_Witness ==
  \E a, b \in Calls :
    /\ Done(a) /\ calls[a].issued = <<"BEGIN", "SELECT", "ROLLBACK">>
    /\ calls[a].outcome.error.message = "Only tickets remaining for"
    /\ Done(b) /\ calls[b].issued = <<"BEGIN">> /\ RejectedCall(b)

\* the call has a statement executing or waiting on the connection
HasStatement(c) == c \in inflight \/ \E i \in 1..Len(queue) : queue[i].req = c

\* C26: when the ROLLBACK of a call fails (no transaction is active any
\* more), the call is rejected with the error that triggered the rollback,
\* not with the rollback error, and it issues no statement afterwards.
C26_RollbackFailureDoesNotMask ==
  [][\A c \in Calls :
       /\ (calls[c].pc = "ROLLBACK" /\ calls'[c].pc # "ROLLBACK" /\ ~inTxn)
          => /\ calls'[c].outcome = Rejected(calls[c].error)
             /\ calls'[c].outcome.error # ErrNoTxnRollback
             /\ calls'[c].pc = "done"
             /\ calls'[c].issued = calls[c].issued
             /\ ~HasStatement(c)'
       /\ calls[c].pc = "done" => (calls'[c] = calls[c] /\ ~HasStatement(c)')
    ]_vars

\* C26 witness: a COMMIT failed and ended the transaction, the ROLLBACK
\* that followed failed, and the call was rejected with the COMMIT's error.
C26_Witness ==
  \E c \in Calls :
    /\ Done(c) /\ calls[c].opened
    /\ calls[c].issued = <<"BEGIN", "SELECT", "UPDATE", "INSERT", "COMMIT", "ROLLBACK">>
    /\ calls[c].outcome = Rejected(ErrIO)
    /\ cur = committed /\ committed.bookings = <<>>

\* how many times the call issued the statement `stmt`
TimesIssued(call, stmt) ==
  Cardinality({i \in 1..Len(call.issued) : call.issued[i] = stmt})

\* C27 (no retry): within one call each of BEGIN, SELECT, UPDATE, INSERT
\* and COMMIT is issued at most once; a call whose BEGIN fails is rejected
\* in that step with the storage error, issues nothing else, and the
\* database and the connection are as they were.
C27_NoRetry ==
  [][\A c \in Calls :
       /\ \A stmt \in {"BEGIN", "SELECT", "UPDATE", "INSERT", "COMMIT"} :
            TimesIssued(calls'[c], stmt) <= 1
       /\ (calls[c].pc = "BEGIN" /\ calls'[c].pc # "BEGIN" /\ ~calls'[c].opened)
          => /\ calls'[c].pc = "done"
             /\ calls'[c].outcome.state = "rejected"
             /\ StorageFailure(calls'[c].outcome.error)
             /\ calls'[c].issued = <<"BEGIN">>
             /\ UNCHANGED <<committed, cur, inTxn>>
    ]_vars

\* C27 witness: a call whose BEGIN found the database locked was rejected
\* with SQLITE_BUSY after that one statement; the database is untouched.
C27_Witness ==
  \E c, d \in Calls :
    /\ Done(c) /\ calls[c].op = "confirmBooking"
    /\ calls[c].issued = <<"BEGIN">> /\ calls[c].outcome = Rejected(ErrBusy)
    /\ committed = InitialView /\ cur = committed /\ ~inTxn
    /\ d # c /\ Done(d) /\ calls[d].outcome = Rejected(ErrNotFound)

\* C28 (frame): the step in which confirmBooking(e, q) succeeds changes
\* the committed database in exactly two places: the tickets of event e
\* drop by q and one booking row for (e, q) is appended. The id, name and
\* date of e, every other event and every earlier booking row are as they
\* were, and no event appears or disappears.
C28_Frame ==
  [][\A c \in Calls :
       (Settles(c) /\ calls'[c].outcome.state = "fulfilled")
       => LET e == parsedId(c)
              q == parsedQty(c)
              old == committed
              new == committed'
          IN /\ DOMAIN new.events = DOMAIN old.events
             /\ e \in DOMAIN old.events
             /\ new.events[e] = [old.events[e] EXCEPT !.tickets = @ - q]
             /\ \A o \in DOMAIN old.events : o # e => new.events[o] = old.events[o]
             /\ Len(new.bookings) = Len(old.bookings) + 1
             /\ \A i \in 1..Len(old.bookings) : new.bookings[i] = old.bookings[i]
             /\ new.bookings[Len(new.bookings)].event_id = e
             /\ new.bookings[Len(new.bookings)].quantity = q
    ]_vars

\* C28 witness: after a booking of all tickets of event 2, one ticket of
\* event 1 was booked; event 2 and the first booking row were left alone.
C28_Witness ==
  \E c, d \in Calls :
    /\ c # d /\ Done(c) /\ Done(d) /\ FulfilledCall(c) /\ FulfilledCall(d)
    /\ parsedId(c) = 1 /\ parsedQty(c) = 1
    /\ parsedId(d) = 2 /\ parsedQty(d) = MaxTickets
    /\ Len(committed.bookings) = 2
    /\ committed.bookings[1].event_id = 2 /\ committed.bookings[2].event_id = 1
    /\ committed.events[2] = [EventRow(2, original[2]) EXCEPT !.tickets = 0]
    /\ committed.events[1] = [EventRow(1, original[1]) EXCEPT !.tickets = @ - 1]

\* the call is between its successful BEGIN and its settlement
InTransaction(c) == calls[c].opened /\ calls[c].pc # "done"

\* C29 (failed BEGIN is inert): the step in which a call's own BEGIN
\* IMMEDIATE fails settles the call having issued BEGIN and nothing else;
\* it leaves the database, the connection's open transaction and every
\* other call as they were, and the call never has a statement executing
\* or queued again.
C29_FailedBeginIsInert ==
  [][\A c \in Calls :
       /\ (calls[c].pc = "BEGIN" /\ calls'[c].pc # "BEGIN" /\ ~calls'[c].opened)
          => /\ calls'[c].pc = "done"
             /\ calls'[c].issued = <<"BEGIN">>
             /\ ~HasStatement(c)'
             /\ UNCHANGED <<committed, cur, inTxn>>
             /\ \A d \in Calls : d # c => calls'[d] = calls[d]
       /\ (calls[c].pc = "done" /\ ~calls[c].opened)
          => (calls'[c] = calls[c] /\ ~HasStatement(c)')
    ]_vars

\* C29 witness: a call was rejected because its BEGIN ran inside the
\* transaction of another call, which is still open and in progress.
C29_Witness ==
  \E c, d \in Calls :
    /\ c # d
    /\ Done(c) /\ calls[c].issued = <<"BEGIN">>
    /\ calls[c].outcome = Rejected(ErrNested)
    /\ InTransaction(d) /\ inTxn
    /\ "ROLLBACK" \notin {calls[d].issued[i] : i \in 1..Len(calls[d].issued)}

\* the uncommitted states a transaction of call c passes through
OwnWrites(c) ==
  LET e == parsedId(c)
      q == parsedQty(c)
      name == BindText(OrGuest(calls[c].customerName))
      updated == UpdateTickets(committed, e, q)
  IN {committed, updated, InsertBooking(updated, e, q, name)}

\* C30 (mutual exclusion on the shared connection): at most one call is
\* between its successful BEGIN and its settlement; an open transaction
\* belongs to that call; a call with a SELECT, UPDATE, INSERT or COMMIT
\* outstanding is that owner and its transaction is still open; and what
\* the transaction holds beyond the committed data is the owner's UPDATE
\* and INSERT only, so a COMMIT or ROLLBACK ends no other call's writes.
C30_MutualExclusion ==
  /\ \A a, b \in Calls : (InTransaction(a) /\ InTransaction(b)) => a = b
  /\ inTxn => \E c \in Calls : InTransaction(c)
  /\ \A c \in Calls :
       calls[c].pc \in {"SELECT", "UPDATE", "INSERT", "COMMIT"}
       => InTransaction(c) /\ inTxn
  /\ \A c \in Calls : calls[c].pc = "ROLLBACK" => InTransaction(c)
  /\ cur # committed => \E c \in Calls : InTransaction(c) /\ inTxn /\ cur \in OwnWrites(c)
  /\ \A c \in Calls : InTransaction(c) => cur \in OwnWrites(c)

\* C30 witness: one call holds the transaction with its UPDATE and INSERT
\* not yet committed while another call, already started, waits at BEGIN.
C30_Witness ==
  \E c, d \in Calls :
    /\ c # d
    /\ InTransaction(c) /\ calls[c].pc = "COMMIT" /\ inTxn
    /\ cur # committed /\ Len(cur.bookings) = Len(committed.bookings) + 1
    /\ calls[d].pc = "BEGIN" /\ HasStatement(d) /\ ~calls[d].opened

====
